---- MODULE Spec2Model ----
(***************************************************************************)
(* Model of gui_cleaner_pyqt.py: the cleaning pipeline Worker.run          *)
(* (header validation, full read, per-row rewrite of 'patientcode' from    *)
(* the pinyin of 'clientname', save back into the same workbook) and the   *)
(* helper get_correct_pinyin.                                              *)
(*                                                                         *)
(* A text is a sequence of one-character strings.  A Chinese character is  *)
(* written by its code point ("U5F20" is the character zhang1, "U4E09" is  *)
(* the character san1).                                                    *)
(***************************************************************************)
EXTENDS Integers, Sequences, FiniteSets, TLC

\* ------------------------------------------------------------------ bounds
MaxRows == 3        \* rows of a sheet under Spec
MaxNameLen == 1     \* characters of a name under Spec
MaxIdLen == 2       \* characters of an identifier under Spec
RowMaxNameLen == 2  \* characters of a name under SpecRow (one-row sheets)
RowMaxIdLen == 4    \* characters of an identifier under SpecRow
MaxRuns == 2        \* runs that save the workbook

\* ------------------------------------------------------------ text helpers
\* str.split('_'): the segments between delimiters, always at least one.
RECURSIVE SplitFrom(_, _, _)
SplitFrom(s, d, cur) ==
    IF s = <<>> THEN <<cur>>
    ELSE IF Head(s) = d THEN <<cur>> \o SplitFrom(Tail(s), d, <<>>)
    ELSE SplitFrom(Tail(s), d, Append(cur, Head(s)))

Split(s, d) == SplitFrom(s, d, <<>>)

\* '_'.join(parts)
RECURSIVE Join(_, _)
Join(parts, d) ==
    IF parts = <<>> THEN <<>>
    ELSE IF Len(parts) = 1 THEN parts[1]
    ELSE parts[1] \o <<d>> \o Join(Tail(parts), d)

\* ''.join(items)
RECURSIVE Concat(_)
Concat(items) == IF items = <<>> THEN <<>> ELSE Head(items) \o Concat(Tail(items))

Whitespace == {" "}

\* str.strip(): leading and trailing whitespace removed.
RECURSIVE LStrip(_)
LStrip(s) == IF s # <<>> /\ Head(s) \in Whitespace THEN LStrip(Tail(s)) ELSE s

RECURSIVE RStrip(_)
RStrip(s) ==
    IF s # <<>> /\ s[Len(s)] \in Whitespace THEN RStrip(SubSeq(s, 1, Len(s) - 1)) ELSE s

Strip(s) == RStrip(LStrip(s))

\* str.upper(), on the letters the model's texts can hold.
UpperChar(c) ==
    CASE c = "a" -> "A" [] c = "g" -> "G" [] c = "h" -> "H" [] c = "n" -> "N"
      [] c = "s" -> "S" [] c = "x" -> "X" [] c = "z" -> "Z" [] OTHER -> c

Upper(s) == [k \in 1..Len(s) |-> UpperChar(s[k])]

\* --------------------------------------------------------------- pypinyin
Hanzi == {"U5F20", "U4E09"}

\* Style.NORMAL: the syllable of a character, without tone marks.
PinyinDict(c) ==
    CASE c = "U5F20" -> <<"z", "h", "a", "n", "g">>
      [] c = "U4E09" -> <<"s", "a", "n">>

\* pinyin(text, style=Style.NORMAL): one item per Chinese character, and one
\* item per maximal run of other characters, which is passed through as it is.
RECURSIVE PinyinFrom(_, _)
PinyinFrom(s, run) ==
    IF s = <<>> THEN (IF run = <<>> THEN <<>> ELSE <<run>>)
    ELSE IF Head(s) \in Hanzi
         THEN (IF run = <<>> THEN <<>> ELSE <<run>>)
              \o <<PinyinDict(Head(s))>> \o PinyinFrom(Tail(s), <<>>)
         ELSE PinyinFrom(Tail(s), Append(run, Head(s)))

pinyin(s) == PinyinFrom(s, <<>>)

\* ------------------------------------------------------------ cell values
\* A cell of a DataFrame: NaN, a number (v is its str()), or a str.
NaN == [tag |-> "nan", v |-> <<>>]
Num(digits) == [tag |-> "num", v |-> digits]
Str(s) == [tag |-> "str", v |-> s]

\* pd.notna(value)
notna(cell) == cell.tag # "nan"

\* str(value) of a value that is not NaN
str(cell) == cell.v

get_correct_pinyin(chinese_name) ==
    IF chinese_name.tag # "str" \/ Strip(chinese_name.v) = <<>>
    THEN <<>>
    ELSE Upper(Concat(pinyin(chinese_name.v)))

\* ------------------------------------------------------------- workbook
\* A cell of a worksheet: empty, a number, or a text.
Empty == [tag |-> "empty", v |-> <<>>]
Number(digits) == [tag |-> "number", v |-> digits]
Text(s) == [tag |-> "text", v |-> s]

\* pd.read_excel on one cell: an empty cell and an empty text are NaN (the
\* default na_values), a number is a number, any other text is a str.
FromExcel(c) ==
    IF c.tag = "empty" \/ (c.tag = "text" /\ c.v = <<>>) THEN NaN
    ELSE IF c.tag = "number" THEN Num(c.v)
    ELSE Str(c.v)

\* DataFrame.to_excel on one cell: NaN is written as an empty cell.
ToExcel(cell) ==
    IF cell.tag = "nan" THEN Empty
    ELSE IF cell.tag = "num" THEN Number(cell.v)
    ELSE Text(cell.v)

\* pd.read_excel(file_path, sheet_name=...): the rows below the header row.
read_excel(sheet) ==
    [k \in 1..Len(sheet.rows) |->
        [c \in sheet.header |-> FromExcel(sheet.rows[k][c])]]

\* df.to_excel(writer, sheet_name=..., index=False): header row and rows.
to_excel(header, frame) ==
    [header |-> header,
     rows |-> [k \in 1..Len(frame) |-> [c \in header |-> ToExcel(frame[k][c])]]]

required_cols == {"clientname", "patientcode"}
Columns == required_cols \cup {"remark"}

\* a slip: 'any required column is present' instead of 'all are'
issubset_any(cols, header) == cols \cap header # {}

\* required_cols.issubset(df_header.columns)
issubset(cols, header) == cols \subseteq header

\* a slip: every required column is reported, the present ones too
missing_cols_all(cols, header) == cols

\* required_cols - set(df_header.columns)
missing_cols(cols, header) == cols \ header

\* ------------------------------------------------------------ the rewrite
\* a slip: only the second segment is kept after the code
new_patient_code_two(correct_pinyin, parts) ==
    Join(<<correct_pinyin, parts[2]>>, "_")

\* a slip: the code is put in front of the segments, the first one included
new_patient_code_prepend(correct_pinyin, parts) ==
    Join(<<correct_pinyin>> \o parts, "_")

\* Lines 99-102: the new identifier of a row whose identifier has at least
\* two segments.
new_patient_code(correct_pinyin, parts) ==
    Join([parts EXCEPT ![1] = correct_pinyin], "_")

\* a slip: an identifier without a delimiter is rewritten too
enough_parts_any(parts) == Len(parts) >= 1

\* len(parts) >= 2
enough_parts(parts) == Len(parts) >= 2

\* a slip: the name is not tested for NaN
both_present_code_only(client_name, patient_code) == notna(patient_code)

\* pd.notna(client_name) and pd.notna(patient_code)
both_present(client_name, patient_code) == notna(client_name) /\ notna(patient_code)

\* a slip: the new identifier is stored in the name column
rewrite_row_wrong_column(row) ==
    LET client_name == row["clientname"]
        patient_code == row["patientcode"]
    IN  IF both_present(client_name, patient_code)
        THEN LET correct_pinyin == get_correct_pinyin(client_name)
                 parts == Split(str(patient_code), "_")
             IN  IF enough_parts(parts)
                 THEN [row |-> [row EXCEPT !["clientname"] =
                                    Str(new_patient_code(correct_pinyin, parts))],
                       counted |-> 1]
                 ELSE [row |-> row, counted |-> 0]
        ELSE [row |-> row, counted |-> 0]

\* a slip: the count is incremented outside the test of len(parts)
rewrite_row_count_all(row) ==
    LET client_name == row["clientname"]
        patient_code == row["patientcode"]
    IN  IF both_present(client_name, patient_code)
        THEN LET correct_pinyin == get_correct_pinyin(client_name)
                 parts == Split(str(patient_code), "_")
             IN  IF enough_parts(parts)
                 THEN [row |-> [row EXCEPT !["patientcode"] =
                                    Str(new_patient_code(correct_pinyin, parts))],
                       counted |-> 1]
                 ELSE [row |-> row, counted |-> 1]
        ELSE [row |-> row, counted |-> 0]

\* Lines 93-104 on one row: the row afterwards and whether it was counted.
rewrite_row(row) ==
    LET client_name == row["clientname"]
        patient_code == row["patientcode"]
    IN  IF both_present(client_name, patient_code)
        THEN LET correct_pinyin == get_correct_pinyin(client_name)
                 parts == Split(str(patient_code), "_")
             IN  IF enough_parts(parts)
                 THEN [row |-> [row EXCEPT !["patientcode"] =
                                    Str(new_patient_code(correct_pinyin, parts))],
                       counted |-> 1]
                 ELSE [row |-> row, counted |-> 0]
        ELSE [row |-> row, counted |-> 0]

\* ------------------------------------------------------------------ state
VARIABLES
    file,             \* the workbook at file_path: sheet name -> sheet
    pc,               \* position of the worker
    sheet_name,       \* Worker.sheet_name
    df_header,        \* columns of the header-only read
    df,               \* the DataFrame of the full read
    index,            \* rows the loop has iterated over
    processed_count,
    signals,          \* signals emitted by this run, in order
    file0,            \* the workbook when this run started
    loaded,           \* df as the full read returned it
    wrote,            \* this run reached the write of line 111
    saves,            \* runs that saved the workbook so far
    saved,            \* the sheets those runs replaced
    rerun             \* this run works on a sheet an earlier run saved

vars == <<file, pc, sheet_name, df_header, df, index, processed_count,
          signals, file0, loaded, wrote, saves, saved, rerun>>

Progress(text, n) == [kind |-> "progress", text |-> text, count |-> n, missing |-> {}]
Finished(n) == [kind |-> "finished", text |-> "saved", count |-> n, missing |-> {}]
Error(text, cols) == [kind |-> "error", text |-> text, count |-> 0, missing |-> cols]

\* a slip: the handler swallows the exception
except_emit_swallow(sigs, text, cols) == sigs

\* Lines 116-117: the handler of run() reports the exception it caught.
except_emit(sigs, text, cols) == Append(sigs, Error(text, cols))

\* a slip: mode='w', the workbook is written anew with the one sheet
replace_sheet_truncate(book, name, sheet) == [s \in {name} |-> sheet]

\* Lines 111-112: ExcelWriter(mode='a', if_sheet_exists='replace') loads the
\* workbook, replaces the sheet of that name and writes the workbook back.
replace_sheet(book, name, sheet) == [book EXCEPT ![name] = sheet]

\* ------------------------------------------------------------ the inputs
RECURSIVE Texts(_, _)
\* the non-empty texts over an alphabet of at most n characters
Texts(alphabet, n) ==
    IF n = 0 THEN {}
    ELSE LET shorter == Texts(alphabet, n - 1)
         IN  {<<c>> : c \in alphabet} \cup shorter
             \cup {Append(s, c) : s \in shorter, c \in alphabet}

\* cells a sheet can hold: empty, a number, a text
Cells(alphabet, n) ==
    {Empty, Number(<<"7">>)} \cup {Text(s) : s \in Texts(alphabet, n)}

\* the remark of row k: a number that tells the rows apart
Remark(k) == Number(<<CASE k = 1 -> "1" [] k = 2 -> "2" [] k = 3 -> "3" [] OTHER -> "9">>)

\* the sheet with all three columns whose row k holds the name and the
\* identifier f[k]
FullSheet(f) ==
    [header |-> Columns,
     rows |-> [k \in 1..Len(f) |->
                 [c \in Columns |->
                     CASE c = "clientname" -> f[k][1]
                       [] c = "patientcode" -> f[k][2]
                       [] OTHER -> Remark(k)]]]

\* sheets whose header lacks a required column, with no row or one row
PartialSheets ==
    UNION {
        {[header |-> h, rows |-> <<>>],
         [header |-> h, rows |-> <<[c \in h |-> Text(<<"x", "_", "x">>)]>>]} :
            h \in {g \in SUBSET Columns : ~(required_cols \subseteq g)}}

\* the sibling sheet of the workbook, which no run is meant to touch
SheetB ==
    [header |-> {"remark"},
     rows |-> <<[c \in {"remark"} |-> Text(<<"x", "_", "x">>)],
                [c \in {"remark"} |-> Empty]>>]

\* sheet names the user can type: "C" is not in the workbook
SheetNames == {"A", "B", "C"}

InitFile(a) ==
    /\ file = [s \in {"A", "B"} |-> IF s = "A" THEN a ELSE SheetB]
    /\ pc = "idle"
    /\ sheet_name = "A"
    /\ df_header = {}
    /\ df = <<>>
    /\ index = 0
    /\ processed_count = 0
    /\ signals = <<>>
    /\ file0 = file
    /\ loaded = <<>>
    /\ wrote = FALSE
    /\ saves = 0
    /\ saved = {}
    /\ rerun = FALSE

\* sheet "A" has all three columns and at most MaxRows rows of short texts,
\* or lacks a column

NameAlphabet == {"U5F20", "_", " "}
IdAlphabet == {"x", "_"}

Init ==
    \/ \E m \in 0..MaxRows :
          \E f \in [1..m -> Cells(NameAlphabet, MaxNameLen) \X Cells(IdAlphabet, MaxIdLen)] :
             InitFile(FullSheet(f))
    \/ \E a \in PartialSheets : InitFile(a)

RowNameAlphabet == {"U5F20", "U4E09", "a", "_", " "}
RowIdAlphabet == {"x", "_", "1"}

\* sheet "A" has all three columns and one row of longer texts, the empty
\* text included, or lacks a column
InitRow ==
    \/ \E n \in Cells(RowNameAlphabet, RowMaxNameLen) \cup {Text(<<>>)} :
          \E i \in Cells(RowIdAlphabet, RowMaxIdLen) \cup {Text(<<>>)} :
             InitFile(FullSheet(<< <<n, i>> >>))
    \/ \E a \in PartialSheets : InitFile(a)

\* ---------------------------------------------------------------- actions
\* MainWindow.start_cleaning: a new Worker on (file_path, sheet_name).  The
\* button is disabled until the run before has reported its outcome.
StartCleaning ==
    /\ pc \in {"idle", "done"}
    /\ saves < MaxRuns
    /\ \E s \in SheetNames :
          /\ sheet_name' = s
          /\ rerun' = (s \in saved)
    /\ pc' = "read_header"
    /\ df_header' = {}
    /\ df' = <<>>
    /\ index' = 0
    /\ processed_count' = 0
    /\ signals' = <<>>
    /\ file0' = file
    /\ loaded' = <<>>
    /\ wrote' = FALSE
    /\ UNCHANGED <<file, saves, saved>>

\* Lines 74-77: the header-only read succeeds.
ReadHeaderOk ==
    /\ pc = "read_header"
    /\ sheet_name \in DOMAIN file
    /\ df_header' = file[sheet_name].header
    /\ signals' = Append(signals, Progress("reading_header", 0))
    /\ pc' = "validate"
    /\ UNCHANGED <<file, sheet_name, df, index, processed_count, file0, loaded,
                   wrote, saves, saved, rerun>>

\* Lines 74-79, 116-117: the read raises (no such sheet, unreadable file).
ReadHeaderFail ==
    /\ pc = "read_header"
    /\ signals' = except_emit(Append(signals, Progress("reading_header", 0)),
                              "read_sheet", {})
    /\ pc' = "done"
    /\ UNCHANGED <<file, sheet_name, df_header, df, index, processed_count, file0,
                   loaded, wrote, saves, saved, rerun>>

\* Lines 81-82, 87: every required column is in the header.
ValidateOk ==
    /\ pc = "validate"
    /\ issubset(required_cols, df_header)
    /\ signals' = Append(signals, Progress("reading_all", 0))
    /\ pc' = "load"
    /\ UNCHANGED <<file, sheet_name, df_header, df, index, processed_count, file0,
                   loaded, wrote, saves, saved, rerun>>

\* Lines 82-84, 116-117: a required column is missing.
ValidateFail ==
    /\ pc = "validate"
    /\ ~issubset(required_cols, df_header)
    /\ signals' = except_emit(signals, "missing_columns",
                              missing_cols(required_cols, df_header))
    /\ pc' = "done"
    /\ UNCHANGED <<file, sheet_name, df_header, df, index, processed_count, file0,
                   loaded, wrote, saves, saved, rerun>>

\* Lines 88-91: the full read succeeds.
LoadOk ==
    /\ pc = "load"
    /\ sheet_name \in DOMAIN file
    /\ df' = read_excel(file[sheet_name])
    /\ loaded' = df'
    /\ signals' = Append(signals, Progress("loaded", Len(df')))
    /\ processed_count' = 0
    /\ index' = 0
    /\ pc' = "loop"
    /\ UNCHANGED <<file, sheet_name, df_header, file0, wrote, saves, saved, rerun>>

\* Lines 88, 116-117: the full read raises.
LoadFail ==
    /\ pc = "load"
    /\ signals' = except_emit(signals, "read_all", {})
    /\ pc' = "done"
    /\ UNCHANGED <<file, sheet_name, df_header, df, index, processed_count, file0,
                   loaded, wrote, saves, saved, rerun>>

\* Lines 92-104: one iteration of the loop.  row['clientname'] on a frame
\* without that column raises KeyError, which line 116 reports.
LoopBody ==
    /\ pc = "loop"
    /\ index < Len(df)
    /\ LET row == df[index + 1]
       IN  IF required_cols \subseteq DOMAIN row
           THEN /\ df' = [df EXCEPT ![index + 1] = rewrite_row(row).row]
                /\ processed_count' = processed_count + rewrite_row(row).counted
                /\ index' = index + 1
                /\ UNCHANGED <<pc, signals>>
           ELSE /\ signals' = except_emit(signals, "key_error", {})
                /\ pc' = "done"
                /\ UNCHANGED <<df, processed_count, index>>
    /\ UNCHANGED <<file, sheet_name, df_header, file0, loaded, wrote, saves, saved,
                   rerun>>

\* Lines 108-114: the loop is over; the sheet is replaced in the workbook
\* and the run reports success.
SaveOk ==
    /\ pc = "loop"
    /\ index = Len(df)
    /\ sheet_name \in DOMAIN file
    /\ file' = replace_sheet(file, sheet_name, to_excel(df_header, df))
    /\ signals' = Append(Append(signals, Progress("saving", processed_count)),
                         Finished(processed_count))
    /\ wrote' = TRUE
    /\ saves' = saves + 1
    /\ saved' = saved \cup {sheet_name}
    /\ pc' = "done"
    /\ UNCHANGED <<sheet_name, df_header, df, index, processed_count, file0, loaded,
                   rerun>>

\* Lines 108-111, 116-117: the writer raises; the workbook is not replaced.
SaveFail ==
    /\ pc = "loop"
    /\ index = Len(df)
    /\ signals' = except_emit(Append(signals, Progress("saving", processed_count)),
                              "save", {})
    /\ wrote' = TRUE
    /\ pc' = "done"
    /\ UNCHANGED <<file, sheet_name, df_header, df, index, processed_count, file0,
                   loaded, saves, saved, rerun>>

Next ==
    \/ StartCleaning
    \/ ReadHeaderOk
    \/ ReadHeaderFail
    \/ ValidateOk
    \/ ValidateFail
    \/ LoadOk
    \/ LoadFail
    \/ LoopBody
    \/ SaveOk
    \/ SaveFail

Spec == Init /\ [][Next]_vars

SpecRow == InitRow /\ [][Next]_vars

\* ------------------------------------------------------------- properties
\* the text holds the delimiter, so it has at least two segments
HasDelim(s) == \E i \in 1..Len(s) : s[i] = "_"

\* the text after the first delimiter: segments 2..n with their delimiters
AfterDelim(s) ==
    LET i == CHOOSE j \in 1..Len(s) : s[j] = "_" /\ \A l \in 1..(j - 1) : s[l] # "_"
    IN  SubSeq(s, i + 1, Len(s))

\* name and identifier present, identifier of at least two segments
Qualifying(r) ==
    /\ r["clientname"].tag # "nan"
    /\ r["patientcode"].tag # "nan"
    /\ HasDelim(r["patientcode"].v)

\* the last signal of the run
Outcome == signals[Len(signals)]

Succeeded == pc = "done" /\ Outcome.kind = "finished"

\* C1: a run that fails at the header read, the validation or the full read
\* has processed no row and written nothing; the workbook is written only
\* after the header held every required column and the table was loaded.
C1_WriteOnlyAfterValidation ==
    /\ (wrote \/ index > 0) =>
          /\ sheet_name \in DOMAIN file0
          /\ required_cols \subseteq file0[sheet_name].header
          /\ Len(loaded) = Len(file0[sheet_name].rows)
          /\ \E i \in 1..Len(signals) : signals[i].text = "loaded"
    /\ file # file0 => wrote
    /\ (pc = "done" /\ Outcome.text \in {"read_sheet", "missing_columns", "read_all"}) =>
          /\ index = 0
          /\ processed_count = 0
          /\ df = <<>>
          /\ ~wrote
          /\ file = file0

\* the sheet has a row, a required column is missing, and the run is over
C1_Witness ==
    /\ pc = "done"
    /\ Outcome.text = "missing_columns"
    /\ file0[sheet_name].rows # <<>>
    /\ "patientcode" \in file0[sheet_name].header
    /\ index = 0
    /\ file = file0

\* C2: once the header is read, validation passes exactly when the header
\* holds every required column, and otherwise the run reports exactly the
\* required columns that the header lacks.
C2_MissingColumnsExact ==
    (Len(signals) >= 2 /\ signals[2].text # "read_sheet") =>
        LET h == file0[sheet_name].header
        IN  IF \A c \in {"clientname", "patientcode"} : c \in h
            THEN signals[2] = Progress("reading_all", 0)
            ELSE /\ signals[2] = Error("missing_columns",
                                       {c \in {"clientname", "patientcode"} : c \notin h})
                 /\ pc = "done"

\* the header has the name column and not the identifier column
C2_Witness ==
    /\ pc = "done"
    /\ Len(signals) = 2
    /\ df_header = {"clientname", "remark"}
    /\ signals[2].missing = {"patientcode"}

\* C3: the loop keeps the rows and their order, changes no column but
\* 'patientcode', and changes 'patientcode' on qualifying rows only.
C3_RewriteFrame ==
    /\ Len(df) = Len(loaded)
    /\ \A k \in 1..Len(df) :
          /\ DOMAIN df[k] = DOMAIN loaded[k]
          /\ \A c \in DOMAIN df[k] \ {"patientcode"} : df[k][c] = loaded[k][c]
          /\ df[k]["patientcode"] # loaded[k]["patientcode"] => Qualifying(loaded[k])

\* the loop is over a table with a changed row and a row that does not qualify
C3_Witness ==
    /\ pc = "loop"
    /\ index = Len(df)
    /\ Len(df) >= 2
    /\ \E k \in 1..Len(df) : df[k]["patientcode"] # loaded[k]["patientcode"]
    /\ \E k \in 1..Len(df) : ~Qualifying(loaded[k])

\* C4: a qualifying row the loop has passed holds the code of its name, the
\* delimiter, and the segments 2..n of its old identifier as they were;
\* zhang1 san1 with "x_1" gives "ZHANGSAN_1".
C4_RewrittenIdentifier ==
    \A k \in 1..index :
        /\ Qualifying(loaded[k]) =>
              df[k]["patientcode"] =
                  Str(get_correct_pinyin(loaded[k]["clientname"]) \o <<"_">>
                      \o AfterDelim(loaded[k]["patientcode"].v))
        /\ (/\ loaded[k]["clientname"] = Str(<<"U5F20", "U4E09">>)
            /\ loaded[k]["patientcode"] = Str(<<"x", "_", "1">>)) =>
              df[k]["patientcode"] =
                  Str(<<"Z", "H", "A", "N", "G", "S", "A", "N", "_", "1">>)

\* a name of one Chinese character and an identifier of three segments
C4_Witness ==
    /\ Succeeded
    /\ ~rerun
    /\ Len(df) = 1
    /\ loaded[1]["clientname"] = Str(<<"U4E09">>)
    /\ loaded[1]["patientcode"] = Str(<<"x", "_", "1", "_">>)
    /\ df[1]["patientcode"] = Str(<<"S", "A", "N", "_", "1", "_">>)

\* C5: an iteration over a row whose name or identifier is NaN changes
\* nothing in the table and does not count the row.
C5_NullRowSkipped ==
    [][(/\ pc = "loop"
        /\ index < Len(df)
        /\ \/ df[index + 1]["clientname"].tag = "nan"
           \/ df[index + 1]["patientcode"].tag = "nan")
       => (df' = df /\ processed_count' = processed_count /\ index' = index + 1)]_vars

\* the name is missing and the identifier is "x_1"
C5_Witness ==
    /\ Succeeded
    /\ Len(df) = 1
    /\ loaded[1]["clientname"] = NaN
    /\ loaded[1]["patientcode"] = Str(<<"x", "_", "1">>)
    /\ df = loaded
    /\ processed_count = 0

\* C6: an iteration over a row whose identifier has no delimiter changes
\* nothing in the table and does not count the row.
C6_NoDelimiterSkipped ==
    [][(/\ pc = "loop"
        /\ index < Len(df)
        /\ ~HasDelim(df[index + 1]["patientcode"].v))
       => (df' = df /\ processed_count' = processed_count /\ index' = index + 1)]_vars

\* a Chinese name with an identifier of one segment
C6_Witness ==
    /\ Succeeded
    /\ Len(df) = 1
    /\ loaded[1]["clientname"] = Str(<<"U5F20">>)
    /\ loaded[1]["patientcode"] = Str(<<"x", "x">>)
    /\ df = loaded
    /\ processed_count = 0

\* C7: a run that is over has emitted one terminal signal, as its last
\* signal; a run that is not over has emitted progress signals only.
C7_OneTerminalOutcome ==
    /\ \A i \in 1..(Len(signals) - 1) : signals[i].kind = "progress"
    /\ pc = "done" => Len(signals) >= 1 /\ Outcome.kind \in {"finished", "error"}
    /\ pc # "done" => \A i \in 1..Len(signals) : signals[i].kind = "progress"

\* the save failed after four progress signals
C7_Witness ==
    /\ pc = "done"
    /\ Len(signals) = 5
    /\ Outcome = Error("save", {})
    /\ processed_count > 0

\* C8: after a run that saved, every other sheet of the workbook is still
\* there with the data it had before the run.
C8_OtherSheetsKept ==
    Succeeded =>
        \A s \in DOMAIN file0 \ {sheet_name} : s \in DOMAIN file /\ file[s] = file0[s]

\* sheet "A" was replaced by a different table and "B" was in the workbook
C8_Witness ==
    /\ Succeeded
    /\ sheet_name = "A"
    /\ "B" \in DOMAIN file0
    /\ file["A"] # file0["A"]

\* C9: the count of the success signal is the number of qualifying rows of
\* the loaded table.
C9_ProcessedCount ==
    Succeeded =>
        /\ Outcome.count = Cardinality({k \in 1..Len(loaded) : Qualifying(loaded[k])})
        /\ Outcome.count = processed_count

\* three rows: two qualify, the third has an identifier of one segment
C9_Witness ==
    /\ Succeeded
    /\ Len(loaded) = 3
    /\ Qualifying(loaded[1])
    /\ Qualifying(loaded[2])
    /\ loaded[3]["clientname"].tag = "str"
    /\ loaded[3]["patientcode"] = Str(<<"x", "x">>)
    /\ df[3] = loaded[3]
    /\ Outcome = Finished(2)

\* C10 as stated: a run on a sheet that an earlier run saved leaves every
\* identifier as it found it, whatever the name.
C10_Idempotent ==
    rerun => \A k \in 1..Len(df) : df[k]["patientcode"] = loaded[k]["patientcode"]

\* C10: a run on a sheet that an earlier run saved leaves the identifier of
\* every row as it found it, when the code of the row's name holds no '_'.
C10_IdempotentWithoutDelimiter ==
    rerun =>
        \A k \in 1..Len(df) :
            ~HasDelim(get_correct_pinyin(loaded[k]["clientname"])) =>
                df[k]["patientcode"] = loaded[k]["patientcode"]

\* the second run is over a row that the first run rewrote
C10_Witness ==
    /\ Succeeded
    /\ rerun
    /\ Len(df) = 1
    /\ processed_count = 1
    /\ loaded[1]["clientname"] = Str(<<"U5F20", "U4E09">>)
    /\ loaded[1]["patientcode"] =
           Str(<<"Z", "H", "A", "N", "G", "S", "A", "N", "_", "1">>)

====
